---------------------------- MODULE Spec2Model ----------------------------
(***************************************************************************)
(* A model of scripts/demo_indexing.py: the Region Patcher                 *)
(* (separate_compare_overwrite), the run (main, tables, demo_indexing),    *)
(* the Link Validator (link_is_valid_relative), the Link Extractor         *)
(* (find_links) and the two Format renderers (Html, Rst).                  *)
(*                                                                         *)
(* Strings are sequences of tokens.  A token is an indivisible run of      *)
(* characters ("\n" is the token NL, the text of a marker line is one      *)
(* token, a letter is a token); every string of the model is written over  *)
(* the same tokens, so two strings are equal iff their sequences are, and  *)
(* concatenation is \o.                                                    *)
(***************************************************************************)
EXTENDS Integers, Sequences, FiniteSets, TLC

VARIABLES
    \* ---- Region Patcher: one target file and the calls made on it
    file,       \* the target file's content on disk
    before,     \* the content the last call found when it opened the file
    call,       \* the last call of separate_compare_overwrite and its outcome
    ncalls,     \* number of calls made
    \* ---- Link Extractor: one traversal
    fElement,   \* find_links: element
    fFmt,       \* find_links: fmt ("Html" or "Rst")
    fFound,     \* what list(find_links(element, fmt)) produced
    fResolved,  \* fmt.link(element) as the renderers call it (checking=False)
    \* ---- Link Validator: one decision
    vLink,      \* link_is_valid_relative: link
    vBase,      \* link_is_valid_relative: base_dir
    vFs,        \* the paths at which the filesystem holds an entry
    vValid,     \* the value returned
    \* ---- Format: one rendering
    rHeadings,  \* render: headings
    rRecords,   \* the Algorithm(...) calls that declare the records
    rFmt,       \* the Format variant
    rOut,       \* the string render returned
    \* ---- one run of main
    disk,       \* the content of each target file
    disk0,      \* disk when the run started
    diskPrev,   \* disk before the last step
    entries,    \* the other paths at which the filesystem holds an entry
    runAction,  \* args.action
    pc,         \* the step of main that is next, or that called sys.exit(1)
    runError,   \* what error() reported
    calls,      \* the calls of separate_compare_overwrite made so far
    \* ---- cell normalization: one value, normalized again and again
    tInp,       \* T.textify: inp
    tOut        \* the values returned so far: textify(inp), textify of that, ...

patchVars == <<file, before, call, ncalls>>

findVars == <<fElement, fFmt, fFound, fResolved>>

linkVars == <<vLink, vBase, vFs, vValid>>

renderVars == <<rHeadings, rRecords, rFmt, rOut>>

runVars == <<disk, disk0, diskPrev, entries, runAction, pc, runError, calls>>

textVars == <<tInp, tOut>>

vars == <<file, before, call, ncalls, fElement, fFmt, fFound, fResolved,
          vLink, vBase, vFs, vValid, rHeadings, rRecords, rFmt, rOut,
          disk, disk0, diskPrev, entries, runAction, pc, runError, calls,
          tInp, tOut>>

-----------------------------------------------------------------------------
(* Bounds *)

MaxChunks == 4        \* an initial file is at most this many chunks
MaxMiddleChunks == 1  \* a rendered new_middle is at most this many chunks
MaxCalls == 2         \* calls of separate_compare_overwrite on the file
MaxCellLen == 1       \* a list given as a cell has at most this many elements
MaxListLen == 2       \* a list given to find_links has at most this many elements
MaxHeadLen == 4       \* a link begins with at most this many free characters
MaxRecords == 1       \* a rendered catalog has at most this many records
MaxTextifyLen == 2    \* a list given to textify has at most this many elements
MaxTextify == 2       \* textify is applied at most this many times in a row

-----------------------------------------------------------------------------
(* Strings *)

NL == "NL"            \* the character "\n"
MARK == "MARK"        \* the text of the marker line between the two "\n"

\* A separator of FILES / DOCS_LINK_SEPARATOR: "\n" + marker text + "\n".
\* The marker texts neither begin nor end with "\n", and no proper prefix of
\* them is a suffix of them, so the separator overlaps itself in exactly the
\* one "\n", as this one does.
Separator == <<NL, MARK, NL>>

SeqsUpTo(S, n) == UNION {[1..k -> S] : k \in 0..n}

RECURSIVE Concat(_)
\* "".join(list)
Concat(ss) == IF ss = <<>> THEN <<>> ELSE Head(ss) \o Concat(Tail(ss))

\* s.startswith(p)
StartsWith(s, p) == Len(s) >= Len(p) /\ SubSeq(s, 1, Len(p)) = p

\* s[i:] for a 0-based i
From(s, i) == SubSeq(s, i + 1, Len(s))

\* str.find(sep, i): the least 0-based index from i on at which sep occurs
\* in s, or -1
Find(s, sep, i) ==
    LET hits == {k \in i..(Len(s) - Len(sep)) : SubSeq(s, k + 1, k + Len(sep)) = sep}
    IN  IF hits = {} THEN -1 ELSE CHOOSE k \in hits : \A j \in hits : k <= j

RECURSIVE Split(_, _)
\* str.split(sep) for a non-empty sep: cut at the leftmost occurrence, go on
\* in what follows it (occurrences do not overlap).
Split(s, sep) ==
    LET i == Find(s, sep, 0)
    IN  IF i = -1 THEN <<s>>
        ELSE <<SubSeq(s, 1, i)>> \o Split(From(s, i + Len(sep)), sep)

RECURSIVE SplitLines(_)
\* str.splitlines(keepends=True) over the model's tokens: a line ends after
\* each "\n"; what follows the last "\n" is a line if it is not empty.
SplitLines(s) ==
    LET ends == {i \in 1..Len(s) : s[i] = NL}
    IN  IF s = <<>> THEN <<>>
        ELSE IF ends = {} THEN <<s>>
        ELSE LET i == CHOOSE e \in ends : \A g \in ends : e <= g
             IN  <<SubSeq(s, 1, i)>> \o SplitLines(From(s, i))

-----------------------------------------------------------------------------
(* The file object of open(file_name, "r+") *)

\* f.write(data) at position pos: the data replaces what is there and extends
\* the file when it is longer; what lies past pos + len(data) stays.
FileWrite(content, pos, data) ==
    SubSeq(content, 1, pos) \o data \o From(content, pos + Len(data))

NoTruncate(content, pos) == content

\* f.truncate(): cut the file at the current position
FileTruncate(content, pos) == SubSeq(content, 1, pos)

-----------------------------------------------------------------------------
(* separate_compare_overwrite *)

NoDiff == <<>>

AtLeastThreeParts(parts) == Len(parts) >= 3

\* the guard of line 630, negated: the split gave prefix, middle, suffix
ThreeParts(parts) == Len(parts) = 3

\* difflib.unified_diff(a, b): empty when a = b, else it carries the lines of
\* both sides (old first).
UnifiedDiff(a, b) == IF a = b THEN NoDiff ELSE <<[old |-> a, new |-> b]>>

DiffAlways(current_middle, new_middle) == TRUE

\* line 637: new_middle != current_middle
Differs(current_middle, new_middle) == new_middle # current_middle

\* The whole call: the outcome ("ok", or the error that ended the process),
\* the file's content when the call ends, and the diff written to stdout.
separate_compare_overwrite(content, separator, action, new_middle) ==
    LET parts == Split(content, separator)
    IN  IF ~ThreeParts(parts)
        THEN [outcome |-> "SeparatorCountMismatch", content |-> content,
              diff |-> NoDiff]
        ELSE LET prefix == parts[1]
                 current_middle == parts[2]
                 suffix == parts[3]
                 data == Concat(<<prefix, separator, new_middle, separator, suffix>>)
             IN  IF action = "compare" /\ Differs(current_middle, new_middle)
                 THEN [outcome |-> "ContentMismatch", content |-> content,
                       diff |-> UnifiedDiff(SplitLines(current_middle),
                                            SplitLines(new_middle))]
                 ELSE IF action = "overwrite"
                 THEN [outcome |-> "ok",
                       content |-> FileTruncate(FileWrite(content, 0, data), Len(data)),
                       diff |-> NoDiff]
                 ELSE [outcome |-> "ok", content |-> content, diff |-> NoDiff]

Actions == {"compare", "overwrite"}

-----------------------------------------------------------------------------
(* Text Nodes, cell normalization, Records *)

\* Python's None where a string may stand, and a string that is there
None == <<>>
Some(s) == <<s>>

LINK_DEFAULT_TEXT == <<"demo">>
TRUE_TEXT == <<"yes">>

\* the values a catalog is declared with, and the elements find_links meets
NoneValue == [type |-> "None"]
Bool(b) == [type |-> "bool", value |-> b]
Str(s) == [type |-> "str", value |-> s]
List(es) == [type |-> "list", elems |-> es]

\* T.__init__ (at least one of text and link is given); text, link and
\* details are None or Some(string), kind is "index" or "notebook"
T(text, link, details, kind) ==
    [type |-> "T",
     text |-> IF text = None THEN LINK_DEFAULT_TEXT ELSE text[1],
     link |-> link, details |-> details, kind |-> kind]

\* index_link(text, link=..., details=...)
index_link(text, link, details) == T(text, link, details, "index")

\* only None taken as absent
IsNotNone(inp) == inp.type # "None"

\* bool(inp) for the declared inputs: None, False, "" and [] are falsy,
\* an object without __bool__ and __len__ (a T) is truthy
Truthy(inp) ==
    CASE inp.type = "None" -> FALSE
      [] inp.type = "bool" -> inp.value
      [] inp.type = "str" -> inp.value # <<>>
      [] inp.type = "list" -> inp.elems # <<>>
      [] OTHER -> TRUE

RECURSIVE textify(_)
\* T.textify
textify(inp) ==
    IF ~Truthy(inp) THEN NoneValue
    ELSE IF inp.type = "bool" THEN T(Some(TRUE_TEXT), None, None, "notebook")
    ELSE IF inp.type = "list"
         THEN List([i \in 1..Len(inp.elems) |-> textify(inp.elems[i])])
    ELSE IF inp.type = "T" THEN inp
    ELSE T(Some(inp.value), None, None, "notebook")

\* The headings.  A heading is a declared T instance and is a dict key by its
\* identity, here its name; HeadingT gives the instance's fields.  The model
\* keeps one heading of each shape of COLUMNS: text only, text and details,
\* index link with details.
COLUMNS == <<"ALGORITHM", "HETEROGENEOUS", "NC">>

HeadingT(h) ==
    CASE h = "ALGORITHM" -> T(Some(<<"Algorithm">>), None, None, "notebook")
      [] h = "HETEROGENEOUS" ->
            T(Some(<<"Heter.">>), None, Some(<<"Heterogeneous">>), "notebook")
      [] h = "NC" ->
            index_link(Some(<<"NC">>), Some(<<"node-classification">>),
                       Some(<<"Node classification">>))

\* the keyword parameters of Algorithm.__init__ the model keeps
KeywordNames == {"heterogeneous", "nc", "interpretability_nc"}

\* the parameters bound by position in the call instead
ArgByPosition(kwargs, name) ==
    LET pos == CASE name = "heterogeneous" -> 1 [] name = "nc" -> 2 [] OTHER -> 3
    IN  IF Len(kwargs) >= pos THEN kwargs[pos][2] ELSE NoneValue

\* the value bound to a keyword-only parameter: the one passed under that
\* name, wherever it stands in the call, else the default None
Arg(kwargs, name) ==
    IF \E i \in 1..Len(kwargs) : kwargs[i][1] = name
    THEN kwargs[CHOOSE i \in 1..Len(kwargs) : kwargs[i][1] = name][2]
    ELSE NoneValue

\* Algorithm.__init__: self.columns, a dict in insertion order, as the
\* sequence of its (key, value) items
AlgorithmColumns(algorithm, kwargs) ==
    <<<<"ALGORITHM", textify(algorithm)>>,
      <<"HETEROGENEOUS", textify(Arg(kwargs, "heterogeneous"))>>,
      <<"NC", textify(Arg(kwargs, "nc"))>>>>

Algorithm(algorithm, kwargs) ==
    [type |-> "Algorithm", columns |-> AlgorithmColumns(algorithm, kwargs)]

\* dict.values()
Values(columns) == [i \in 1..Len(columns) |-> columns[i][2]]

\* dict[key]
Lookup(columns, key) ==
    columns[CHOOSE i \in 1..Len(columns) : columns[i][1] = key][2]

-----------------------------------------------------------------------------
(* Format: link suffixes *)

Formats == {"Html", "Rst"}

IndexSuffixNoChecking(fmt, checking) ==
    IF fmt = "Html" THEN <<"/", "README.md">> ELSE <<"/", "index">>

\* Html.index_suffix, Rst.index_suffix
index_suffix(fmt, checking) ==
    IF fmt = "Html" THEN <<"/", "README.md">>
    ELSE IF checking THEN <<"/", "index", ".rst">>
    ELSE <<"/", "index">>

\* Html.notebook_suffix, Rst.notebook_suffix
notebook_suffix(fmt, checking) ==
    IF fmt = "Html" THEN <<".ipynb">>
    ELSE IF checking THEN <<".nblink">>
    ELSE <<>>

\* Format.link: None, or Some(t.link + suffix)
Format_link(fmt, t, checking) ==
    IF t.link = None THEN None
    ELSE Some(t.link[1] \o (IF t.kind = "index"
                            THEN index_suffix(fmt, checking)
                            ELSE notebook_suffix(fmt, checking)))

-----------------------------------------------------------------------------
(* HtmlBuilder *)

SP == " "

\* " " * n
Spaces(n) == [i \in 1..n |-> SP]

RECURSIVE JoinWith(_, _)
\* sep.join(lines)
JoinWith(lines, sep) ==
    IF lines = <<>> THEN <<>>
    ELSE IF Len(lines) = 1 THEN lines[1]
    ELSE lines[1] \o sep \o JoinWith(Tail(lines), sep)

\* HtmlBuilder.__init__: indent is None or Some(number)
HtmlBuilder(indent) ==
    [html |-> <<>>, indent_amount |-> indent, indent_level |-> 0, add_count |-> 0]

\* HtmlBuilder.add
add(b, data, one_line) ==
    IF one_line
    THEN [b EXCEPT !.add_count = @ + 1,
                   !.html = [b.html EXCEPT ![Len(b.html)] = @ \o data]]
    ELSE LET indented ==
                 IF b.indent_amount # None /\ b.indent_amount[1] # 0
                 THEN Spaces(b.indent_amount[1] * b.indent_level) \o data
                 ELSE data
         IN  [b EXCEPT !.add_count = @ + 1, !.html = Append(b.html, indented)]

RECURSIVE AttrsStr(_)
\* " ".join(f"{name}='{value}'" for name, value in attrs.items())
AttrsStr(attrs) ==
    IF attrs = <<>> THEN <<>>
    ELSE LET one == <<attrs[1][1], "='">> \o attrs[1][2] \o <<"'">>
         IN  IF Len(attrs) = 1 THEN one ELSE one \o <<SP>> \o AttrsStr(Tail(attrs))

\* f"<{name}{attrs_str}>" with the leading space of a non-empty attrs_str
OpenTag(name, attrs) ==
    <<"<", name>> \o (IF AttrsStr(attrs) # <<>> THEN <<SP>> \o AttrsStr(attrs) ELSE <<>>)
        \o <<">">>

CloseTag(name) == <<"</", name, ">">>

\* HtmlBuilder.element up to its yield
element_enter(b, name, attrs, only_with_attrs) ==
    IF only_with_attrs /\ attrs = <<>> THEN b
    ELSE [add(b, OpenTag(name, attrs), FALSE) EXCEPT !.indent_level = @ + 1]

\* HtmlBuilder.element after its yield; initial_len is len(self.html) as it
\* was when the body started
element_exit(b, name, attrs, only_with_attrs, initial_len) ==
    IF only_with_attrs /\ attrs = <<>> THEN b
    ELSE add([b EXCEPT !.indent_level = @ - 1], CloseTag(name),
             Len(b.html) = initial_len)

\* HtmlBuilder.string
string(b) == JoinWith(b.html, IF b.indent_amount = None THEN <<>> ELSE <<NL>>)

-----------------------------------------------------------------------------
(* Html *)

AUTOGENERATED_PROMPT == <<"autogenerated by __file__, edit that file instead of this location">>

HtmlRenderIndent == 2

\* a string that is there and not empty
TruthyStr(o) == o # None /\ o[1] # <<>>

\* Html._render_t
Html_render_t(t) ==
    LET title_attr == IF TruthyStr(t.details) THEN <<<<"title", t.details[1]>>>> ELSE <<>>
        link == Format_link("Html", t, FALSE)
        href_attr == IF TruthyStr(link) THEN <<<<"href", link[1]>>>> ELSE <<>>
        html0 == HtmlBuilder(None)
        html1 == element_enter(html0, "span", title_attr, TRUE)
        html2 == element_enter(html1, "a", href_attr, TRUE)
        html3 == add(html2, t.text, FALSE)
        html4 == element_exit(html3, "a", href_attr, TRUE, Len(html2.html))
        html5 == element_exit(html4, "span", title_attr, TRUE, Len(html1.html))
    IN  string(html5)

RECURSIVE Html_render_cell(_, _, _)
RECURSIVE Html_render_cell_each(_, _)

\* Html._render_cell
Html_render_cell(html, cell, one_line) ==
    IF ~Truthy(cell) THEN html
    ELSE IF cell.type = "list" THEN Html_render_cell_each(html, cell.elems)
    ELSE add(html, Html_render_t(cell), one_line)

\* for contents in cell: self._render_cell(html, contents, one_line=False)
Html_render_cell_each(html, cells) ==
    IF cells = <<>> THEN html
    ELSE Html_render_cell_each(Html_render_cell(html, Head(cells), FALSE), Tail(cells))

RECURSIVE Html_header_cells(_, _)
\* lines 160-162
Html_header_cells(builder, headings) ==
    IF headings = <<>> THEN builder
    ELSE LET b1 == element_enter(builder, "th", <<>>, FALSE)
             b2 == add(b1, Html_render_t(HeadingT(Head(headings))), TRUE)
             b3 == element_exit(b2, "th", <<>>, FALSE, Len(b1.html))
         IN  Html_header_cells(b3, Tail(headings))

RECURSIVE Html_row_cells(_, _, _)
\* lines 166-168
Html_row_cells(builder, headings, algorithm) ==
    IF headings = <<>> THEN builder
    ELSE LET b1 == element_enter(builder, "td", <<>>, FALSE)
             b2 == Html_render_cell(b1, Lookup(algorithm.columns, Head(headings)), TRUE)
             b3 == element_exit(b2, "td", <<>>, FALSE, Len(b1.html))
         IN  Html_row_cells(b3, Tail(headings), algorithm)

RECURSIVE Html_rows(_, _, _)
\* lines 164-168
Html_rows(builder, headings, algorithms) ==
    IF algorithms = <<>> THEN builder
    ELSE LET b1 == element_enter(builder, "tr", <<>>, FALSE)
             b2 == Html_row_cells(b1, headings, Head(algorithms))
             b3 == element_exit(b2, "tr", <<>>, FALSE, Len(b1.html))
         IN  Html_rows(b3, headings, Tail(algorithms))

\* Html.render
Html_render(headings, algorithms) ==
    LET b0 == add(HtmlBuilder(Some(HtmlRenderIndent)),
                  <<"<!-- ">> \o AUTOGENERATED_PROMPT \o <<" -->">>, FALSE)
        b1 == element_enter(b0, "table", <<>>, FALSE)
        b2 == element_enter(b1, "tr", <<>>, FALSE)
        b3 == Html_header_cells(b2, headings)
        b4 == element_exit(b3, "tr", <<>>, FALSE, Len(b2.html))
        b5 == Html_rows(b4, headings, algorithms)
        b6 == element_exit(b5, "table", <<>>, FALSE, Len(b1.html))
    IN  string(b6)

-----------------------------------------------------------------------------
(* Rst *)

\* the backquote character
BQ == "BACKQUOTE"

new_row == <<SP, SP, SP, "*">>
new_item == <<SP, SP, SP, SP, SP, "-">>

\* Rst._render_t
Rst_render_t(t) ==
    LET link == Format_link("Rst", t, FALSE)
        text == IF TruthyStr(t.details) THEN t.details[1] ELSE t.text
    IN  IF TruthyStr(link)
        THEN <<":any:", BQ>> \o text \o <<" <">> \o link[1] \o <<">", BQ>>
        ELSE text

RECURSIVE Rst_render_cell(_)
\* Rst._render_cell
Rst_render_cell(cell) ==
    IF ~Truthy(cell) THEN <<>>
    ELSE IF cell.type = "list"
    THEN JoinWith([i \in 1..Len(cell.elems) |-> Rst_render_cell(cell.elems[i])],
                  <<",", SP>>)
    ELSE Rst_render_t(cell)

\* lines 217-219
Rst_header_lines(headings) ==
    [i \in 1..Len(headings) |-> new_item \o <<SP>> \o Rst_render_t(HeadingT(headings[i]))]

\* lines 223-228
Rst_row_lines(headings, algorithm) ==
    [i \in 1..Len(headings) |->
        LET rst == Rst_render_cell(Lookup(algorithm.columns, headings[i]))
        IN  IF rst # <<>> THEN new_item \o <<SP>> \o rst ELSE new_item]

\* Rst.render
Rst_render(headings, algorithms) ==
    LET result0 == <<<<".. list-table::">>, <<SP, SP, SP, ":header-rows: 1">>, <<>>>>
        result1 == Append(result0, new_row) \o Rst_header_lines(headings)
        result2 == result1 \o Concat([i \in 1..Len(algorithms) |->
                        <<new_row>> \o Rst_row_lines(headings, algorithms[i])])
    IN  JoinWith(result2, <<NL>>)

\* file_fmt.render(headings, algorithms)
render(fmt, headings, algorithms) ==
    IF fmt = "Html" THEN Html_render(headings, algorithms)
    ELSE Rst_render(headings, algorithms)

-----------------------------------------------------------------------------
(* find_links *)

RECURSIVE find_links(_, _)
RECURSIVE find_links_each(_, _)

\* list(find_links(element, fmt)): the pairs yielded, and whether the
\* generator ended by raising ValueError (the pairs yielded before it stay)
find_links(element, fmt) ==
    IF element.type = "None" THEN [pairs |-> <<>>, raised |-> FALSE]
    ELSE IF element.type = "T"
    THEN LET rendered_link == Format_link(fmt, element, TRUE)
         IN  IF rendered_link # None /\ rendered_link[1] # <<>>
             THEN [pairs |-> <<<<element.link[1], rendered_link[1]>>>>,
                   raised |-> FALSE]
             ELSE [pairs |-> <<>>, raised |-> FALSE]
    ELSE IF element.type = "list" THEN find_links_each(element.elems, fmt)
    ELSE IF element.type = "Algorithm"
    THEN find_links_each(Values(element.columns), fmt)
    ELSE [pairs |-> <<>>, raised |-> TRUE]

\* for sub in subs: yield from find_links(sub, fmt)
find_links_each(subs, fmt) ==
    IF subs = <<>> THEN [pairs |-> <<>>, raised |-> FALSE]
    ELSE LET first == find_links(Head(subs), fmt)
         IN  IF first.raised THEN first
             ELSE LET rest == find_links_each(Tail(subs), fmt)
                  IN  [pairs |-> first.pairs \o rest.pairs, raised |-> rest.raised]

-----------------------------------------------------------------------------
(* link_is_valid_relative *)

\* posixpath.isabs
isabs(s) == StartsWith(s, <<"/">>)

\* str.lower on the model's letters (no other token begins with a letter the
\* test of line 278 looks at)
LowerChar(c) ==
    CASE c = "H" -> "h" [] c = "T" -> "t" [] c = "P" -> "p" [] OTHER -> c

Lower(s) == [i \in 1..Len(s) |-> LowerChar(s[i])]

\* posixpath.join(a, b)
PathJoin(a, b) ==
    IF isabs(b) THEN b
    ELSE IF a = <<>> \/ a[Len(a)] = "/" THEN a \o b
    ELSE a \o <<"/">> \o b

\* os.path.exists(p) on the filesystem fs
exists(fs, p) == p \in fs

\* line 278: link.lower().startswith("http")
StartsWithHttp(lnk) == StartsWith(Lower(lnk), <<"h", "t", "t", "p">>)

\* link is None or Some(string)
link_is_valid_relative(lnk, base_dir, fs) ==
    IF lnk = None THEN TRUE
    ELSE IF isabs(lnk[1]) THEN FALSE
    ELSE IF StartsWithHttp(lnk[1]) THEN FALSE
    ELSE exists(fs, PathJoin(base_dir, lnk[1]))

-----------------------------------------------------------------------------
(* main: tables, demo_indexing *)

DOC_URL_BASE == <<"https://stellargraph.readthedocs.io/en/stable">>

DOCS_LINK_SEPARATOR == <<NL, "<!-- DOCS LINKS -->", NL>>

\* FILES: the token "..(NL)   DEMO TABLE MARKER" is the marker text, which
\* holds a "\n" of its own
FILES ==
    <<[fmt |-> "Rst",
       file_name |-> <<"docs", "/", "demos", "/", "index.rst">>,
       separator |-> <<NL, "..(NL)   DEMO TABLE MARKER", NL>>],
      [fmt |-> "Html",
       file_name |-> <<"demos", "/", "README.md">>,
       separator |-> <<NL, "<!-- DEMO TABLE MARKER -->", NL>>]>>

\* ALGORITHMS, cut down to one record with a notebook link
ALGORITHMS ==
    <<Algorithm(T(Some(<<"GCN">>), None, Some(<<"Graph Convolutional Network (GCN)">>),
                  "notebook"),
                <<<<"heterogeneous", Str(<<"see RGCN">>)>>,
                  <<"nc", T(None, Some(<<"node-classification", "/", "gcn">>), None,
                            "notebook")>>>>)>>

\* glob.iglob("demos/**/", recursive=True): the root, then one subdirectory
Directories == <<<<"demos", "/">>, <<"demos", "/", "sub", "/">>>>

RECURSIVE RStripSlashes(_)
\* str.rstrip("/")
RStripSlashes(s) ==
    IF s # <<>> /\ s[Len(s)] = "/" THEN RStripSlashes(SubSeq(s, 1, Len(s) - 1)) ELSE s

\* posixpath.dirname
Dirname(path) ==
    LET slashes == {i \in 1..Len(path) : path[i] = "/"}
        i == IF slashes = {} THEN 0 ELSE CHOOSE k \in slashes : \A j \in slashes : j <= k
        head == SubSeq(path, 1, i)
    IN  IF head # <<>> /\ (\E k \in 1..Len(head) : head[k] # "/")
        THEN RStripSlashes(head) ELSE head

\* no call of error() so far
NoError == [kind |-> "none", file |-> <<>>, count |-> 0, links |-> <<>>, diff |-> NoDiff]

\* what error() reports before sys.exit(1)
Error(kind, file_name, links, diff) ==
    [kind |-> kind, file |-> file_name, count |-> Len(links), links |-> links,
     diff |-> diff]

\* one call of separate_compare_overwrite on the disk d: the disk after it,
\* the error that ended the run (if any), and the record of the call
Patch(d, file_name, separator, action, new_middle, label) ==
    LET r == separate_compare_overwrite(d[file_name], separator, action, new_middle)
    IN  [disk |-> [d EXCEPT ![file_name] = r.content],
         error |-> IF r.outcome = "ok" THEN NoError
                   ELSE Error(r.outcome, file_name, <<>>, r.diff),
         calls |-> <<[file |-> file_name, label |-> label, separator |-> separator,
                      new_middle |-> new_middle, outcome |-> r.outcome]>>]

InvalidLinksFirstOnly(pairs, base_dir, ents) ==
    LET Invalid(pr) == ~link_is_valid_relative(Some(pr[2]), base_dir, ents)
        all == SelectSeq(pairs, Invalid)
    IN  IF all = <<>> THEN <<>> ELSE <<all[1]>>

\* lines 528-534: the pairs whose rendered link is not valid
InvalidLinks(pairs, base_dir, ents) ==
    LET Invalid(pr) == ~link_is_valid_relative(Some(pr[2]), base_dir, ents)
    IN  SelectSeq(pairs, Invalid)

\* itertools.chain(find_links(COLUMNS, fmt), find_links(ALGORITHMS, fmt))
ChainedLinks(fmt) ==
    find_links_each(<<List([i \in 1..Len(COLUMNS) |-> HeadingT(COLUMNS[i])]),
                      List(ALGORITHMS)>>, fmt)

TablesPatchFirst(file_fmt, action, d, ents) ==
    LET new_table == render(file_fmt.fmt, COLUMNS, ALGORITHMS)
        base_dir == Dirname(file_fmt.file_name)
        invalid_links == InvalidLinks(ChainedLinks(file_fmt.fmt).pairs, base_dir, ents)
        patched == Patch(d, file_fmt.file_name, file_fmt.separator, action, new_table,
                         "table")
    IN  IF patched.error.kind = "none" /\ invalid_links # <<>>
        THEN [patched EXCEPT
                !.error = Error("InvalidLinks", file_fmt.file_name, invalid_links, NoDiff)]
        ELSE patched

\* the body of the loop of tables, for one entry of FILES
TablesFile(file_fmt, action, d, ents) ==
    LET new_table == render(file_fmt.fmt, COLUMNS, ALGORITHMS)
        base_dir == Dirname(file_fmt.file_name)
        found == ChainedLinks(file_fmt.fmt)
        invalid_links == InvalidLinks(found.pairs, base_dir, ents)
    IN  IF found.raised
        THEN [disk |-> d, calls |-> <<>>,
              error |-> Error("UnsupportedNode", file_fmt.file_name, <<>>, NoDiff)]
        ELSE IF invalid_links # <<>>
        THEN [disk |-> d, calls |-> <<>>,
              error |-> Error("InvalidLinks", file_fmt.file_name, invalid_links, NoDiff)]
        ELSE Patch(d, file_fmt.file_name, file_fmt.separator, action, new_table, "table")

\* demo_listing_table(directory) joined by "\n", for a directory that holds
\* no notebook
Listing == <<"| Demo | Source |", NL, "|---|---|">>

ListingSuffix == <<"The demo titles link to the latest, nicely rendered version. ...">>

\* lines 596-614
NewContents(directory) ==
    LET is_root == directory = Directories[1]
    IN  <<"<!-- ">> \o AUTOGENERATED_PROMPT \o <<" -->", NL, NL,
          "These demos are displayed with detailed descriptions in the documentation: ">>
        \o DOC_URL_BASE \o <<"/">> \o directory \o <<NL, NL>>
        \o (IF is_root THEN <<>> ELSE Listing) \o <<NL, NL>>
        \o (IF is_root THEN <<>> ELSE ListingSuffix)

\* the body of the loop of demo_indexing, for one directory
DemoDirectory(directory, action, d, ents) ==
    LET readme == PathJoin(directory, <<"README.md">>)
        index == PathJoin(PathJoin(<<"docs">>, directory), <<"index.txt">>)
    IN  IF readme \notin DOMAIN d
        THEN [disk |-> d, calls |-> <<>>, error |-> NoError]
        ELSE IF ~exists(ents, index)
        THEN [disk |-> d, calls |-> <<>>,
              error |-> Error("MissingIndex", readme, <<>>, NoDiff)]
        ELSE Patch(d, readme, DOCS_LINK_SEPARATOR, action, NewContents(directory),
                   "docs link")

-----------------------------------------------------------------------------
(* SpecPatch: calls of separate_compare_overwrite on one file *)

Chunks == {<<NL>>, <<MARK>>, <<"a">>, Separator}

InitialFiles == {Concat(cs) : cs \in SeqsUpTo(Chunks, MaxChunks)}

Middles == {Concat(cs) : cs \in SeqsUpTo(Chunks, MaxMiddleChunks)}

NoCall == [action |-> "none", new_middle |-> <<>>, outcome |-> "none", diff |-> NoDiff]

\* the parts of the state a specification does not use stay as they are here
IdlePatch == file = <<>> /\ before = <<>> /\ call = NoCall /\ ncalls = 0

NotFound == [done |-> FALSE, pairs |-> <<>>, raised |-> FALSE]

IdleFind ==
    fElement = NoneValue /\ fFmt = "Html" /\ fFound = NotFound /\ fResolved = <<>>

IdleLink == vLink = None /\ vBase = <<>> /\ vFs = {} /\ vValid = <<>>

IdleRender == rHeadings = <<>> /\ rRecords = <<>> /\ rFmt = "Html" /\ rOut = <<>>

IdleRun ==
    /\ disk = <<>> /\ disk0 = <<>> /\ diskPrev = <<>> /\ entries = {}
    /\ runAction = "compare" /\ pc = [phase |-> "idle", i |-> 0, aborted |-> FALSE]
    /\ runError = NoError /\ calls = <<>>

IdleText == tInp = NoneValue /\ tOut = <<>>

InitPatch ==
    /\ file \in InitialFiles
    /\ before = file
    /\ call = NoCall
    /\ ncalls = 0
    /\ IdleFind /\ IdleLink /\ IdleRender /\ IdleRun /\ IdleText

Call(action, new_middle) ==
    LET r == separate_compare_overwrite(file, Separator, action, new_middle)
    IN  /\ ncalls < MaxCalls
        /\ file' = r.content
        /\ before' = file
        /\ call' = [action |-> action, new_middle |-> new_middle,
                    outcome |-> r.outcome, diff |-> r.diff]
        /\ ncalls' = ncalls + 1
        /\ UNCHANGED <<findVars, linkVars, renderVars, runVars, textVars>>

Compare == \E m \in Middles : Call("compare", m)

Overwrite == \E m \in Middles : Call("overwrite", m)

NextPatch == Compare \/ Overwrite

SpecPatch == InitPatch /\ [][NextPatch]_vars

-----------------------------------------------------------------------------
(* SpecFind: one traversal by find_links, one rendering resolution *)

TNoLink == T(Some(<<"GCN">>), None, None, "notebook")
TIndex == index_link(None, Some(<<"a">>), None)
TNotebook == T(Some(<<"US">>), Some(<<"b">>), Some(<<"UnsupervisedSampler">>), "notebook")

Ts == {TNoLink, TIndex, TNotebook}

NonEmptySeqsUpTo(S, n) == UNION {[1..k -> S] : k \in 1..n}

\* what a catalog passes for a cell
RawCells ==
    {NoneValue, Bool(TRUE), Str(<<"see">>)} \cup Ts
        \cup {List(es) : es \in NonEmptySeqsUpTo({NoneValue, TIndex, TNotebook}, MaxCellLen)}

Records ==
    {Algorithm(a, <<<<"heterogeneous", h>>, <<"nc", n>>>>) : a, h, n \in RawCells}

\* a str is no element find_links supports
TEmptyLink == T(None, Some(<<>>), None, "notebook")

Leaves == {NoneValue, Str(<<"see">>), TEmptyLink} \cup Ts

ListItems ==
    Leaves \cup
    {List(<<TIndex, TNotebook>>),
     Algorithm(TNotebook, <<<<"nc", TIndex>>>>),
     Algorithm(Str(<<"see">>), <<<<"interpretability_nc", TIndex>>,
                                 <<"heterogeneous", List(<<TNotebook, TIndex>>)>>>>)}

FindElements ==
    Leaves \cup Records \cup {List(es) : es \in SeqsUpTo(ListItems, MaxListLen)}

InitFind ==
    /\ fElement \in FindElements
    /\ fFmt \in Formats
    /\ fFound = NotFound
    /\ fResolved = <<>>
    /\ IdlePatch /\ IdleLink /\ IdleRender /\ IdleRun /\ IdleText

\* list(find_links(element, fmt))
FindLinks ==
    /\ ~fFound.done
    /\ LET r == find_links(fElement, fFmt)
       IN  fFound' = [done |-> TRUE, pairs |-> r.pairs, raised |-> r.raised]
    /\ UNCHANGED <<fElement, fFmt, fResolved, patchVars, linkVars, renderVars, runVars, textVars>>

\* self.link(t) in _render_t: the resolution used in the rendered table
ResolveLink ==
    /\ fElement.type = "T"
    /\ fResolved = <<>>
    /\ fResolved' = <<Format_link(fFmt, fElement, FALSE)>>
    /\ UNCHANGED <<fElement, fFmt, fFound, patchVars, linkVars, renderVars, runVars, textVars>>

NextFind == FindLinks \/ ResolveLink

SpecFind == InitFind /\ [][NextFind]_vars

-----------------------------------------------------------------------------
(* SpecLink: one decision of link_is_valid_relative *)

LinkChars == {"/", "h", "H", "t", "p"}

LinkTails ==
    {<<>>, <<"x">>, <<"/", "x">>, <<":", "/", "/", "x">>, <<"s", ":", "/", "/", "x">>}

Links == {h \o t : h \in SeqsUpTo(LinkChars, MaxHeadLen), t \in LinkTails}

\* os.path.dirname of the two FILES entries
BaseDirs == {<<"demos">>, <<"docs", "/", "demos">>}

InitLink ==
    /\ vLink \in {None} \cup {Some(l) : l \in Links}
    /\ vBase \in BaseDirs
    /\ vFs \in {{}} \cup (IF vLink = None THEN {} ELSE {{PathJoin(vBase, vLink[1])}})
    /\ vValid = <<>>
    /\ IdlePatch /\ IdleFind /\ IdleRender /\ IdleRun /\ IdleText

Validate ==
    /\ vValid = <<>>
    /\ vValid' = <<link_is_valid_relative(vLink, vBase, vFs)>>
    /\ UNCHANGED <<vLink, vBase, vFs, patchVars, findVars, renderVars, runVars, textVars>>

NextLink == Validate

SpecLink == InitLink /\ [][NextLink]_vars

-----------------------------------------------------------------------------
(* SpecRender: one call of render *)

Range(f) == {f[i] : i \in DOMAIN f}

\* the lists of distinct headings
HeadingLists ==
    {hs \in SeqsUpTo(Range(COLUMNS), Len(COLUMNS)) :
        \A i, j \in 1..Len(hs) : hs[i] = hs[j] => i = j}

TDetails == T(Some(<<"GCN">>), None, Some(<<"Graph Convolutional Network (GCN)">>), "notebook")

RenderValues == {NoneValue, List(<<TNotebook, TNoLink>>)}

\* the keyword arguments of one Algorithm(...) call, in the order written
KwargsLists ==
    {kw \in SeqsUpTo({"heterogeneous", "nc"} \X RenderValues, 2) :
        \A i, j \in 1..Len(kw) : kw[i][1] = kw[j][1] => i = j}

RecordArgs == [algorithm : {Str(<<"GCN">>), TDetails}, kwargs : KwargsLists]

InitRender ==
    /\ rHeadings \in HeadingLists
    /\ rRecords \in SeqsUpTo(RecordArgs, MaxRecords)
    /\ rFmt \in Formats
    /\ rOut = <<>>
    /\ IdlePatch /\ IdleFind /\ IdleLink /\ IdleRun /\ IdleText

\* file_fmt.render(headings, algorithms) on the records as declared
Render ==
    /\ rOut = <<>>
    /\ rOut' = <<render(rFmt, rHeadings,
                        [i \in 1..Len(rRecords) |->
                            Algorithm(rRecords[i].algorithm, rRecords[i].kwargs)])>>
    /\ UNCHANGED <<rHeadings, rRecords, rFmt, patchVars, findVars, linkVars, runVars, textVars>>

NextRender == Render

SpecRender == InitRender /\ [][NextRender]_vars

-----------------------------------------------------------------------------
(* SpecTextify: T.textify on a declared input, then on what it returned *)

\* the declared inputs that are no list: nothing, a bool, a string, a T
TextifyLeaves ==
    {NoneValue, Bool(TRUE), Bool(FALSE), Str(<<>>), Str(<<"see">>)} \cup Ts

TextifyInputs ==
    TextifyLeaves \cup {List(es) : es \in SeqsUpTo(TextifyLeaves, MaxTextifyLen)}

InitTextify ==
    /\ tInp \in TextifyInputs
    /\ tOut = <<>>
    /\ IdlePatch /\ IdleFind /\ IdleLink /\ IdleRender /\ IdleRun

\* T.textify(inp), or T.textify of the value the last call returned
Textify ==
    /\ Len(tOut) < MaxTextify
    /\ tOut' = Append(tOut, textify(IF tOut = <<>> THEN tInp ELSE tOut[Len(tOut)]))
    /\ UNCHANGED <<tInp, patchVars, findVars, linkVars, renderVars, runVars>>

NextTextify == Textify

SpecTextify == InitTextify /\ [][NextTextify]_vars

-----------------------------------------------------------------------------
(* SpecRun: one run of main *)

Regions == {"stale", "current", "broken"}

\* a managed region between its two separators: out of date, as the run
\* would render it, or with its second separator missing
Region(kind, separator, rendered) ==
    CASE kind = "stale" -> separator \o <<"made by hand">> \o separator
      [] kind = "current" -> separator \o rendered \o separator
      [] kind = "broken" -> separator \o <<"made by hand">>

SubReadme == PathJoin(Directories[2], <<"README.md">>)

DiskOf(rst, html, docs, sub) ==
    [f \in {FILES[1].file_name, FILES[2].file_name}
            \cup (IF sub = "absent" THEN {} ELSE {SubReadme}) |->
        CASE f = FILES[1].file_name ->
                <<"intro">> \o Region(rst, FILES[1].separator,
                                      render("Rst", COLUMNS, ALGORITHMS))
                    \o <<"outro">>
          [] f = FILES[2].file_name ->
                <<"intro">> \o Region(html, FILES[2].separator,
                                      render("Html", COLUMNS, ALGORITHMS))
                    \o <<"more">> \o Region(docs, DOCS_LINK_SEPARATOR, <<>>)
                    \o <<"outro">>
          [] OTHER ->
                <<"intro">> \o Region(sub, DOCS_LINK_SEPARATOR, <<>>) \o <<"outro">>]

\* the paths the run asks the filesystem about
AskedPaths ==
    {PathJoin(Dirname(FILES[i].file_name), ChainedLinks(FILES[i].fmt).pairs[k][2]) :
        i \in 1..Len(FILES), k \in 1..2}
    \cup {PathJoin(PathJoin(<<"docs">>, Directories[j]), <<"index.txt">>) : j \in 1..2}

StartOfRun == [phase |-> "tables", i |-> 1, aborted |-> FALSE]
Done == [phase |-> "done", i |-> 0, aborted |-> FALSE]

InitRun ==
    /\ \E rst, html \in Regions, docs \in {"stale", "broken"},
          sub \in {"stale", "broken", "absent"} : disk = DiskOf(rst, html, docs, sub)
    /\ disk0 = disk
    /\ diskPrev = disk
    /\ entries \in SUBSET AskedPaths
    /\ runAction \in Actions
    /\ pc = StartOfRun
    /\ runError = NoError
    /\ calls = <<>>
    /\ IdlePatch /\ IdleFind /\ IdleLink /\ IdleRender /\ IdleText

Step(r, next) ==
    /\ disk' = r.disk
    /\ diskPrev' = disk
    /\ runError' = r.error
    /\ calls' = calls \o r.calls
    /\ pc' = IF r.error.kind # "none" THEN [pc EXCEPT !.aborted = TRUE] ELSE next
    /\ UNCHANGED <<disk0, entries, runAction, patchVars, findVars, linkVars, renderVars,
                   textVars>>

\* tables(args.action), one entry of FILES at a time
Tables ==
    /\ pc.phase = "tables" /\ ~pc.aborted
    /\ Step(TablesFile(FILES[pc.i], runAction, disk, entries),
            IF pc.i < Len(FILES) THEN [pc EXCEPT !.i = @ + 1]
            ELSE [phase |-> "demo", i |-> 1, aborted |-> FALSE])

\* demo_indexing(args.action), one directory at a time
DemoIndexing ==
    /\ pc.phase = "demo" /\ ~pc.aborted
    /\ Step(DemoDirectory(Directories[pc.i], runAction, disk, entries),
            IF pc.i < Len(Directories) THEN [pc EXCEPT !.i = @ + 1] ELSE Done)

NextRun == Tables \/ DemoIndexing

SpecRun == InitRun /\ [][NextRun]_vars

-----------------------------------------------------------------------------
(* Claims about the Region Patcher, under SpecPatch *)

RECURSIVE CountSeparators(_, _)
\* the number of non-overlapping occurrences of sep in s, read left to right
CountSeparators(s, sep) ==
    IF Len(s) < Len(sep) THEN 0
    ELSE IF StartsWith(s, sep) THEN 1 + CountSeparators(From(s, Len(sep)), sep)
    ELSE CountSeparators(Tail(s), sep)

Called == call.action \in Actions

\* C1: in either mode, a file that holds the separator a number of times other
\* than two makes the call end in the separator-count error, and the file's
\* content after the call is its content before the call.
C1_SeparatorCountContract ==
    (Called /\ CountSeparators(before, Separator) # 2)
        => (call.outcome = "SeparatorCountMismatch" /\ file = before)

C1_Witness ==
    /\ call.action = "overwrite"
    /\ CountSeparators(before, Separator) >= 3
    /\ call.outcome = "SeparatorCountMismatch"
    /\ file = before

\* C2: an overwrite that follows a successful overwrite with the same
\* new_middle succeeds and leaves the file as the first overwrite left it.
C2_OverwriteIdempotent ==
    [][(/\ call.action = "overwrite" /\ call.outcome = "ok"
        /\ ncalls' = ncalls + 1
        /\ call'.action = "overwrite"
        /\ call'.new_middle = call.new_middle)
            => (call'.outcome = "ok" /\ file' = file)]_vars

\* C3: a compare that follows a successful overwrite with the same new_middle
\* succeeds, with an empty diff.
C3_CompareAfterOverwrite ==
    [][(/\ call.action = "overwrite" /\ call.outcome = "ok"
        /\ ncalls' = ncalls + 1
        /\ call'.action = "compare"
        /\ call'.new_middle = call.new_middle)
            => (call'.outcome = "ok" /\ call'.diff = NoDiff)]_vars

\* C4: compare mode never changes the file; on a file with exactly two
\* separators it fails with the content-mismatch error, after a diff of the
\* on-disk region (old) against the rendered content (new), iff the two
\* differ, and succeeds otherwise.
C4_CompareFrame ==
    call.action = "compare" =>
        /\ file = before
        /\ CountSeparators(before, Separator) = 2 =>
             LET region == Split(before, Separator)[2]
             IN  IF call.new_middle # region
                 THEN /\ call.outcome = "ContentMismatch"
                      /\ call.diff = <<[old |-> SplitLines(region),
                                        new |-> SplitLines(call.new_middle)]>>
                 ELSE /\ call.outcome = "ok"
                      /\ call.diff = NoDiff

C4_Witness ==
    /\ call.action = "compare"
    /\ call.outcome = "ContentMismatch"
    /\ call.diff # NoDiff
    /\ file = before

\* C5: overwrite mode on a file that splits into (prefix, current_middle,
\* suffix) leaves exactly prefix + separator + new_middle + separator +
\* suffix, also when that is shorter than the old content.
C5_OverwriteFrame ==
    (call.action = "overwrite" /\ Len(Split(before, Separator)) = 3) =>
        LET parts == Split(before, Separator)
        IN  /\ call.outcome = "ok"
            /\ file = parts[1] \o Separator \o call.new_middle
                        \o Separator \o parts[3]

C5_Witness ==
    /\ call.action = "overwrite"
    /\ call.outcome = "ok"
    /\ Len(file) < Len(before)
    /\ Len(Split(before, Separator)) = 3
    /\ Split(before, Separator)[3] # <<>>

-----------------------------------------------------------------------------
(* Claims about the Link Validator, under SpecLink *)

\* a link that begins with the scheme marker of an HTTP or HTTPS URL,
\* whatever the case of its letters
HasHttpScheme(l) ==
    \/ StartsWith(Lower(l), <<"h", "t", "t", "p", ":", "/", "/">>)
    \/ StartsWith(Lower(l), <<"h", "t", "t", "p", "s", ":", "/", "/">>)

\* C8: an absent link is valid; an absolute path is invalid; a link that
\* begins with an HTTP(S) scheme marker (in any case) is invalid; every other
\* link is valid iff the filesystem holds an entry at base_dir joined with it.
C8_LinkValidity ==
    vValid # <<>> =>
        vValid[1] = (IF vLink = None THEN TRUE
                     ELSE IF vLink[1] # <<>> /\ vLink[1][1] = "/" THEN FALSE
                     ELSE IF HasHttpScheme(vLink[1]) THEN FALSE
                     ELSE (vBase \o <<"/">> \o vLink[1]) \in vFs)

-----------------------------------------------------------------------------
(* Claims about the Link Extractor, under SpecFind *)

RECURSIVE Reachable(_)
\* the nodes of a structure that are no list and no Record, in traversal
\* order: a list's elements in order, a Record's cells in the order of COLUMNS
Reachable(e) ==
    IF e.type = "list"
    THEN Concat([i \in 1..Len(e.elems) |-> Reachable(e.elems[i])])
    ELSE IF e.type = "Algorithm"
    THEN Concat([i \in 1..Len(COLUMNS) |-> Reachable(Lookup(e.columns, COLUMNS[i]))])
    ELSE <<e>>

CheckingSuffix(fmt, kind) ==
    CASE fmt = "Html" /\ kind = "index" -> <<"/", "README.md">>
      [] fmt = "Html" /\ kind = "notebook" -> <<".ipynb">>
      [] fmt = "Rst" /\ kind = "index" -> <<"/", "index", ".rst">>
      [] fmt = "Rst" /\ kind = "notebook" -> <<".nblink">>

RenderingSuffix(fmt, kind) ==
    CASE fmt = "Html" -> CheckingSuffix(fmt, kind)
      [] fmt = "Rst" /\ kind = "index" -> <<"/", "index">>
      [] fmt = "Rst" /\ kind = "notebook" -> <<>>

IsLinked(e) == e.type = "T" /\ e.link # None

ExpectedPairs(e, fmt) ==
    LET linked == SelectSeq(Reachable(e), IsLinked)
    IN  [i \in 1..Len(linked) |->
            <<linked[i].link[1],
              linked[i].link[1] \o CheckingSuffix(fmt, linked[i].kind)>>]

Unsupported(e) == e.type \notin {"None", "T"}

\* C9: find_links yields one pair (link, link + checking suffix of the node's
\* kind) for every reachable Text Node with a link, in traversal order, and
\* nothing else; an element that is no None, Text Node, list or Record makes
\* it fail; the rendering resolution of structured-text uses '/index' and ''.
C9_FindLinks ==
    /\ fFound.done =>
        /\ fFound.raised = (\E i \in 1..Len(Reachable(fElement)) :
                                Unsupported(Reachable(fElement)[i]))
        /\ ~fFound.raised => fFound.pairs = ExpectedPairs(fElement, fFmt)
    /\ fResolved # <<>> =>
        fResolved[1] = IF fElement.link = None THEN None
                       ELSE Some(fElement.link[1]
                                    \o RenderingSuffix(fFmt, fElement.kind))

C9_Witness ==
    /\ fFound.done
    /\ ~fFound.raised
    /\ fFmt = "Rst"
    /\ fElement.type = "Algorithm"
    /\ Len(fFound.pairs) >= 3
    /\ fFound.pairs[1] # fFound.pairs[2]

-----------------------------------------------------------------------------
(* Claims about the renderers, under SpecRender *)

EndsWith(s, p) == Len(s) >= Len(p) /\ SubSeq(s, Len(s) - Len(p) + 1, Len(s)) = p

\* the lines of a rendered string
LinesOf(out) == Split(out, <<NL>>)

\* the value the call that declares a record passes for a heading's column,
\* whatever the place of the keyword in the call
Passed(rec, heading) ==
    LET name == CASE heading = "HETEROGENEOUS" -> "heterogeneous"
                  [] heading = "NC" -> "nc"
                  [] OTHER -> "algorithm"
        at == {i \in 1..Len(rec.kwargs) : rec.kwargs[i][1] = name}
    IN  IF heading = "ALGORITHM" THEN rec.algorithm
        ELSE IF at = {} THEN NoneValue
        ELSE rec.kwargs[CHOOSE i \in at : TRUE][2]

\* Rst: the rows of the list-table, each the item lines under one "   *"
RstRows(out) ==
    LET lines == LinesOf(out)
    IN  Tail(Split(SubSeq(lines, 4, Len(lines)), <<new_row>>))

RstItem(content) == IF content = <<>> THEN new_item ELSE new_item \o <<SP>> \o content

\* Html: the lines between <table> and </table>
HtmlInner(out) ==
    LET lines == LinesOf(out)
    IN  SubSeq(lines, 3, Len(lines) - 1)

Malformed == <<<<<<"malformed">>>>>>

RECURSIVE HtmlRows(_)
\* Html: the rows, each the lines between "  <tr>" and "  </tr>"
HtmlRows(lines) ==
    LET closes == {k \in 2..Len(lines) : lines[k] = Spaces(2) \o CloseTag("tr")}
    IN  IF lines = <<>> THEN <<>>
        ELSE IF Head(lines) = Spaces(2) \o OpenTag("tr", <<>>) \o CloseTag("tr")
        THEN <<<<>>>> \o HtmlRows(Tail(lines))
        ELSE IF Head(lines) # Spaces(2) \o OpenTag("tr", <<>>) \/ closes = {}
        THEN Malformed
        ELSE LET k == CHOOSE c \in closes : \A d \in closes : c <= d
             IN  <<SubSeq(lines, 2, k - 1)>> \o HtmlRows(From(lines, k))

RECURSIVE HtmlCells(_, _)
\* Html: the cells of a row, each the lines from its opening tag (at the
\* row's depth plus one) to its closing tag
HtmlCells(lines, tag) ==
    LET open == Spaces(4) \o OpenTag(tag, <<>>)
        closes == {k \in 1..Len(lines) :
                     \/ (k = 1 /\ EndsWith(lines[k], CloseTag(tag)))
                     \/ lines[k] = Spaces(4) \o CloseTag(tag)}
    IN  IF lines = <<>> THEN <<>>
        ELSE IF ~StartsWith(Head(lines), open) \/ closes = {} THEN Malformed
        ELSE LET k == CHOOSE c \in closes : \A d \in closes : c <= d
             IN  <<SubSeq(lines, 1, k)>> \o HtmlCells(From(lines, k), tag)

\* Html: a cell on its own, <tag> + content + </tag> on one line
HtmlInline(tag, content) == <<Spaces(4) \o OpenTag(tag, <<>>) \o content \o CloseTag(tag)>>

\* Html: the td of a cell, rendered on its own at the depth of a row's cells
HtmlTd(cell) ==
    LET b0 == [HtmlBuilder(Some(HtmlRenderIndent)) EXCEPT !.indent_level = 2]
        b1 == element_enter(b0, "td", <<>>, FALSE)
        b2 == Html_render_cell(b1, cell, TRUE)
    IN  element_exit(b2, "td", <<>>, FALSE, Len(b1.html)).html

\* C10: the header row and every record row hold one cell per heading, in the
\* order of the headings; the cell at a heading's place is that of the value
\* the record was given for it, whatever the order of the keyword arguments;
\* an absent cell is an empty td (Html) or a bare item marker (Rst).
C10_ColumnOrder ==
    rOut # <<>> =>
        LET n == Len(rHeadings)
            cell(i, j) == textify(Passed(rRecords[i], rHeadings[j]))
            rows == IF rFmt = "Rst" THEN RstRows(rOut[1])
                    ELSE HtmlRows(HtmlInner(rOut[1]))
        IN  /\ Len(rows) = 1 + Len(rRecords)
            /\ IF rFmt = "Rst"
               THEN /\ rows[1] =
                         [j \in 1..n |-> RstItem(Rst_render_t(HeadingT(rHeadings[j])))]
                    /\ \A i \in 1..Len(rRecords) :
                         rows[i + 1] =
                           [j \in 1..n |->
                              IF cell(i, j) = NoneValue THEN new_item
                              ELSE RstItem(Rst_render_cell(cell(i, j)))]
               ELSE /\ HtmlCells(rows[1], "th") =
                         [j \in 1..n |->
                            HtmlInline("th", Html_render_t(HeadingT(rHeadings[j])))]
                    /\ \A i \in 1..Len(rRecords) :
                         HtmlCells(rows[i + 1], "td") =
                           [j \in 1..n |->
                              IF cell(i, j) = NoneValue THEN HtmlInline("td", <<>>)
                              ELSE HtmlTd(cell(i, j))]

\* a record declared with nc before heterogeneous, rendered under headings
\* that put HETEROGENEOUS before NC, with one of the two cells absent
C10_Witness ==
    /\ rOut # <<>>
    /\ Len(rRecords) = 1
    /\ Len(rRecords[1].kwargs) = 2
    /\ rRecords[1].kwargs[1][1] = "nc"
    /\ rRecords[1].kwargs[1][2] = NoneValue
    /\ rRecords[1].kwargs[2][2] # NoneValue
    /\ rHeadings = <<"HETEROGENEOUS", "ALGORITHM", "NC">>

-----------------------------------------------------------------------------
(* Claims about a run of main, under SpecRun *)

Succeeded(c) == c.outcome = "ok"

RECURSIVE Replay(_, _)
\* the disk d after the regions named by the calls cs were replaced, each
\* completely: prefix + separator + new content + separator + suffix
Replay(d, cs) ==
    IF cs = <<>> THEN d
    ELSE LET c == Head(cs)
             parts == Split(d[c.file], c.separator)
         IN  Replay([d EXCEPT ![c.file] = parts[1] \o c.separator \o c.new_middle
                                            \o c.separator \o parts[3]],
                    Tail(cs))

PatchedFiles == {calls[k].file : k \in {j \in 1..Len(calls) : Succeeded(calls[j])}}

\* C6 as stated: a run in overwrite mode that aborts has rewritten no target
\* file, so the files are all regenerated or all as they were.
C6_RunAllOrNothing ==
    (pc.aborted /\ runAction = "overwrite") => disk = disk0

\* C6, amended: when a run in overwrite mode aborts, the step that aborts
\* leaves every file as it found it, every file that no earlier step patched
\* is as it was before the run, and every file that an earlier step patched
\* stays rewritten, each region replaced completely.  The run as a whole is
\* not all-or-nothing.
C6_FileAllOrNothing ==
    (pc.aborted /\ runAction = "overwrite") =>
        /\ disk = diskPrev
        /\ \A f \in DOMAIN disk \ PatchedFiles : disk[f] = disk0[f]
        /\ disk = Replay(disk0, SelectSeq(calls, Succeeded))

C6_Witness ==
    /\ pc.aborted /\ runAction = "overwrite"
    /\ pc.phase = "demo"
    /\ disk[FILES[1].file_name] # disk0[FILES[1].file_name]
    /\ disk[FILES[2].file_name] # disk0[FILES[2].file_name]
    /\ SubReadme \in DOMAIN disk /\ disk[SubReadme] = disk0[SubReadme]

\* the invalid pairs of one entry of FILES: the pairs of the headings, then of
\* the records, whose target is missing below the file's directory (the
\* links of COLUMNS and ALGORITHMS are relative and name no website)
ExpectedInvalid(file_fmt) ==
    LET pairs == ExpectedPairs(List([i \in 1..Len(COLUMNS) |-> HeadingT(COLUMNS[i])]),
                               file_fmt.fmt)
                 \o ExpectedPairs(List(ALGORITHMS), file_fmt.fmt)
        dir == SubSeq(file_fmt.file_name, 1, Len(file_fmt.file_name) - 2)
        Missing(pr) == (dir \o <<"/">> \o pr[2]) \notin entries
    IN  SelectSeq(pairs, Missing)

\* tables has run its loop body for FILES[i]
Executed(i) ==
    \/ pc.phase \in {"demo", "done"}
    \/ pc.phase = "tables" /\ (pc.i > i \/ (pc.i = i /\ pc.aborted))

AbortedAt(i) == pc.aborted /\ pc.phase = "tables" /\ pc.i = i

\* C7: for each file of FILES that tables processes, all the invalid pairs of
\* the headings and then of the records are collected; if there is one, the
\* run aborts there with one report that lists all of them and their count,
\* and separate_compare_overwrite is not called for that file, which is left
\* as it was.
C7_BatchValidation ==
    \A i \in 1..Len(FILES) :
        LET invalid == ExpectedInvalid(FILES[i])
        IN  /\ (Executed(i) /\ invalid # <<>>) =>
                /\ AbortedAt(i)
                /\ runError.kind = "InvalidLinks"
                /\ runError.file = FILES[i].file_name
                /\ runError.links = invalid
                /\ runError.count = Len(invalid)
                /\ disk = diskPrev
                /\ \A k \in 1..Len(calls) :
                      ~(calls[k].file = FILES[i].file_name /\ calls[k].label = "table")
            /\ (AbortedAt(i) /\ runError.kind = "InvalidLinks") => invalid # <<>>

C7_Witness ==
    /\ AbortedAt(2)
    /\ runError.kind = "InvalidLinks"
    /\ runError.count = 2
    /\ runAction = "overwrite"
    /\ Len(calls) = 1

-----------------------------------------------------------------------------
(* Claims about cell normalization, under SpecTextify *)

\* the Text Node with a text and nothing else
PlainT(text) ==
    [type |-> "T", text |-> text, link |-> <<>>, details |-> <<>>, kind |-> "notebook"]

\* what normalization makes of a declared input that is no list
NormalLeaf(x) ==
    CASE x.type = "None" -> [type |-> "None"]
      [] x.type = "bool" -> IF x.value THEN PlainT(<<"yes">>) ELSE [type |-> "None"]
      [] x.type = "str" -> IF x.value = <<>> THEN [type |-> "None"] ELSE PlainT(x.value)
      [] x.type = "T" -> x

\* C11: textify returns a value for every declared input: absent for an absent
\* or falsy input, the Text Node 'yes' for true, a Text Node itself, a Text
\* Node with that text for another value, and for a list the list of its
\* elements' normal forms in the same order; textify of a value textify
\* returned is that value.
C11_TextifyIdempotent ==
    /\ Len(tOut) >= 1 =>
        tOut[1] = IF tInp.type # "list" THEN NormalLeaf(tInp)
                  ELSE IF tInp.elems = <<>> THEN [type |-> "None"]
                  ELSE [type |-> "list",
                        elems |-> [i \in 1..Len(tInp.elems) |-> NormalLeaf(tInp.elems[i])]]
    /\ \A k \in 2..Len(tOut) : tOut[k] = tOut[1]

C11_Witness ==
    /\ Len(tOut) = 2
    /\ tInp = List(<<Bool(TRUE), Str(<<>>)>>)
    /\ tOut[2] = List(<<PlainT(<<"yes">>), NoneValue>>)

-----------------------------------------------------------------------------
(* Claims about the autogenerated marker, under SpecRender *)

\* the line holds the text of the autogenerated prompt
HoldsPrompt(line) == \E k \in 1..Len(line) : line[k] = "autogenerated by __file__, edit that file instead of this location"

\* the line opens the table markup of either variant
OpensTable(line) ==
    \E k \in 1..Len(line) : line[k] \in {"table", ".. list-table::"}

\* C12: for both Format variants, the first line of the string render returns
\* is the autogenerated-prompt marker, and the table markup starts only
\* after that line.
C12_AutogeneratedFirstLine ==
    rOut # <<>> =>
        LET first == LinesOf(rOut[1])[1]
        IN  HoldsPrompt(first) /\ ~OpensTable(first)

=============================================================================
